---- MODULE Spec2Model ----
(***************************************************************************)
(* A model of global_profile.c: the process list kept by profile_forever,  *)
(* the eligibility/update protocol (update_process_stats), the merge step  *)
(* (add_pid_to_list), the pruning step (remove_expired_processes) and the  *)
(* candidate scorer (get_process_weight, update_candidate_process).        *)
(*                                                                         *)
(* The linked list is a sequence whose first element is *head.  A          *)
(* translation overhead (a double in the C code) is an exact rational      *)
(* <<numerator, denominator>> with a positive denominator.  The two        *)
(* library calls update_thp_usage and update_translation_overhead and      *)
(* malloc are the environment: each call's outcome is an input of the      *)
(* step that makes the call.                                               *)
(***************************************************************************)
EXTENDS Integers, Sequences, FiniteSets, TLC

VARIABLES
    current_timestamp, \* the global logical clock
    head,              \* the process list, head first
    pc,                \* position of profile_forever
    nread,             \* lines fgets has returned since the last popen
    observed,          \* PIDs passed to add_pid_to_list since the last popen
    before,            \* PIDs of the list at the last popen
    call,              \* the add_pid_to_list call made by the last step, if any
    hints,             \* the syscall(325, pid, value) calls made by the last step
    live,              \* records malloc has returned and free has not taken
    starved            \* PIDs malloc returned NULL for, not inserted since

(* live is followed by SpecHeap and starved by SpecRetry; the other        *)
(* specifications leave them at their initial values.                      *)
vars == <<current_timestamp, head, pc, nread, observed, before, call, hints,
          live, starved>>

-----------------------------------------------------------------------------
(* Bounds of the model *)

MaxTick == 2
MaxLines == 2

(* The number of records the heap has room for (SpecHeap). *)
MaxLive == 3

(* header.h is not part of the sources at hand; the two thresholds take    *)
(* the value of the specification's scenarios (ELIGIBILITY_THRESHOLD) and  *)
(* a small positive overhead (IS_CONSIDERABLE).                            *)
ELIGIBILITY_THRESHOLD == 10000
IS_CONSIDERABLE == 2

(* The PIDs the process listing may report. *)
Pids == {100, 200}

(* Outcomes of update_thp_usage: its return value and, when that is 0,    *)
(* the two sizes it stores.                                                *)
ThpSamples ==
    { [ret |-> 0, anon_size |-> 10000, anon_thp |-> 0],      \* at the threshold
      [ret |-> 0, anon_size |-> 12048, anon_thp |-> 10000],  \* 2048 not huge-page backed
      [ret |-> 0, anon_size |-> 11024, anon_thp |-> 10000],  \* 1024
      [ret |-> 0, anon_size |-> 10500, anon_thp |-> 10000],  \* 500
      [ret |-> 0, anon_size |-> 10500, anon_thp |-> 20000],  \* anon_thp > anon_size
      [ret |-> 0, anon_size |-> -1, anon_thp |-> 0] }        \* a negative size

ThpResults == { [ret |-> -1, anon_size |-> 0, anon_thp |-> 0] } \cup ThpSamples

(* Outcomes of update_translation_overhead: its return value and, when    *)
(* that is 0, the overhead it stores: -3/2, 0, 1/2 or 10.                  *)
OverheadSamples == { <<-3, 2>>, <<0, 1>>, <<1, 2>>, <<10, 1>> }

OverheadResults ==
    { [ret |-> -1, overhead |-> <<0, 1>>] }
        \cup { [ret |-> 0, overhead |-> o] : o \in OverheadSamples }

(* What malloc may return: NULL, or a record whose fields hold anything. *)
Garbage ==
    { [pid |-> 0, timestamp |-> 0, anon_size |-> 0, anon_thp |-> 0,
       overhead |-> <<0, 1>>, skip |-> FALSE],
      [pid |-> 100, timestamp |-> MaxTick, anon_size |-> 50000, anon_thp |-> 0,
       overhead |-> <<10, 1>>, skip |-> FALSE] }

MallocResults ==
    { [null |-> TRUE, proc |-> CHOOSE g \in Garbage : g.pid = 0] }
        \cup { [null |-> FALSE, proc |-> g] : g \in Garbage }

-----------------------------------------------------------------------------
(* Arithmetic of the C code *)

(* a / b on C integers, b > 0: the quotient is truncated toward zero. *)
CDiv(a, b) == IF a >= 0 THEN a \div b ELSE -((-a) \div b)

(* (int)x of a double x: the fraction is discarded. *)
IntCast(x) == CDiv(x[1], x[2])

(* #define max(a, b) (((a) < (b)) ? (b) : (a)) *)
max(a, b) == IF a < b THEN b ELSE a

(* x < y and x > y on two overheads or weights (denominators positive). *)
RatLess(x, y) == x[1] * y[2] < y[1] * x[2]

RatGreater(x, y) == RatLess(y, x)

PidsOf(list) == { list[i].pid : i \in 1..Len(list) }

-----------------------------------------------------------------------------
(* The environment: lib_thp and lib_perf *)

update_thp_usage(proc, thp) ==
    IF thp.ret # 0
    THEN [proc |-> proc, ret |-> -1]
    ELSE [proc |-> [proc EXCEPT !.anon_size = thp.anon_size,
                                !.anon_thp = thp.anon_thp],
          ret |-> 0]

update_translation_overhead(proc, ov) ==
    IF ov.ret # 0
    THEN [proc |-> proc, ret |-> -1]
    ELSE [proc |-> [proc EXCEPT !.overhead = ov.overhead], ret |-> 0]

-----------------------------------------------------------------------------
(* update_process_stats *)

(* An update that lets a size equal to the threshold through. *)
update_process_stats_at_threshold(pid, proc, thp, ov) ==
    LET stamped == [proc EXCEPT !.pid = pid, !.timestamp = current_timestamp]
        usage == update_thp_usage(stamped, thp)
    IN  IF usage.ret # -1 /\ usage.proc.anon_size >= ELIGIBILITY_THRESHOLD
        THEN LET perf == update_translation_overhead(usage.proc, ov)
             IN  IF perf.ret = 0
                 THEN [proc |-> [perf.proc EXCEPT !.skip = FALSE], ret |-> TRUE]
                 ELSE [proc |-> [perf.proc EXCEPT !.skip = TRUE], ret |-> FALSE]
        ELSE [proc |-> [usage.proc EXCEPT !.skip = TRUE], ret |-> FALSE]

(* An update that stamps the record only when it succeeds. *)
update_process_stats_stamp_on_success(pid, proc, thp, ov) ==
    LET named == [proc EXCEPT !.pid = pid]
        usage == update_thp_usage(named, thp)
    IN  IF usage.ret # -1 /\ usage.proc.anon_size > ELIGIBILITY_THRESHOLD
        THEN LET perf == update_translation_overhead(usage.proc, ov)
             IN  IF perf.ret = 0
                 THEN [proc |-> [perf.proc EXCEPT !.skip = FALSE,
                                                  !.timestamp = current_timestamp],
                       ret |-> TRUE]
                 ELSE [proc |-> [perf.proc EXCEPT !.skip = TRUE], ret |-> FALSE]
        ELSE [proc |-> [usage.proc EXCEPT !.skip = TRUE], ret |-> FALSE]

(* An update that clears the overhead when it stops before refreshing it. *)
update_process_stats_clear_on_failure(pid, proc, thp, ov) ==
    LET stamped == [proc EXCEPT !.pid = pid, !.timestamp = current_timestamp]
        usage == update_thp_usage(stamped, thp)
    IN  IF usage.ret # -1 /\ usage.proc.anon_size > ELIGIBILITY_THRESHOLD
        THEN LET perf == update_translation_overhead(usage.proc, ov)
             IN  IF perf.ret = 0
                 THEN [proc |-> [perf.proc EXCEPT !.skip = FALSE], ret |-> TRUE]
                 ELSE [proc |-> [perf.proc EXCEPT !.skip = TRUE], ret |-> FALSE]
        ELSE [proc |-> [usage.proc EXCEPT !.skip = TRUE, !.overhead = <<0, 1>>],
              ret |-> FALSE]

update_process_stats(pid, proc, thp, ov) ==
    LET stamped == [proc EXCEPT !.pid = pid, !.timestamp = current_timestamp]
        usage == update_thp_usage(stamped, thp)
    IN  IF usage.ret # -1 /\ usage.proc.anon_size > ELIGIBILITY_THRESHOLD
        THEN LET perf == update_translation_overhead(usage.proc, ov)
             IN  IF perf.ret = 0
                 THEN [proc |-> [perf.proc EXCEPT !.skip = FALSE], ret |-> TRUE]
                 ELSE [proc |-> [perf.proc EXCEPT !.skip = TRUE], ret |-> FALSE]
        ELSE [proc |-> [usage.proc EXCEPT !.skip = TRUE], ret |-> FALSE]

-----------------------------------------------------------------------------
(* add_pid_to_list *)

(* The search loop: the position of the first record with this pid, 0 for  *)
(* NULL.                                                                   *)
RECURSIVE FindFrom(_, _, _)
FindFrom(pid, list, i) ==
    IF i > Len(list) THEN 0
    ELSE IF list[i].pid = pid THEN i
    ELSE FindFrom(pid, list, i + 1)

(* A search that compares the first record only. *)
FindHeadOnly(pid, list) ==
    IF Len(list) > 0 /\ list[1].pid = pid THEN 1 ELSE 0

Find(pid, list) == FindFrom(pid, list, 1)

(* A hint without the floor of 1. *)
HintValueNoFloor(overhead) == IntCast(overhead)

(* The value of the hint derived from the overhead. *)
HintValue(overhead) == max(1, IntCast(overhead))

(* A hint for a listed pid only when its update succeeded. *)
ExistingHintsIfEligible(pid, proc) ==
    IF proc.skip THEN << >> ELSE << <<pid, HintValue(proc.overhead)>> >>

(* The syscall made for a pid found in the list. *)
ExistingHints(pid, proc) == << <<pid, HintValue(proc.overhead)>> >>

(* The two hints of an insertion in the other order. *)
NewHintsSwapped(pid, proc) ==
    << <<pid, HintValue(proc.overhead)>>, <<pid, 1000>> >>

(* The two syscalls made for a pid just inserted. *)
NewHints(pid, proc) ==
    << <<pid, 1000>>, <<pid, HintValue(proc.overhead)>> >>

(* An insertion that does not look at what update_process_stats returns. *)
add_pid_to_list_unchecked(pid, new, thp, ov) ==
    LET i == Find(pid, head)
    IN  IF i # 0
        THEN LET r == update_process_stats(pid, head[i], thp, ov)
             IN  /\ head' = [head EXCEPT ![i] = r.proc]
                 /\ hints' = ExistingHints(pid, r.proc)
                 /\ call' = [pid |-> pid, found |-> TRUE,
                             ret |-> IF r.ret THEN "true" ELSE "false"]
        ELSE IF new.null
        THEN /\ head' = head
             /\ hints' = << >>
             /\ call' = [pid |-> pid, found |-> FALSE, ret |-> "nomem"]
        ELSE LET r == update_process_stats(pid, new.proc, thp, ov)
             IN  /\ head' = <<r.proc>> \o head
                 /\ hints' = NewHints(pid, r.proc)
                 /\ call' = [pid |-> pid, found |-> FALSE,
                             ret |-> IF r.ret THEN "true" ELSE "false"]

(* A merge that emits a floor hint when malloc returns NULL. *)
add_pid_to_list_hint_without_record(pid, new, thp, ov) ==
    LET i == Find(pid, head)
    IN  IF i # 0
        THEN LET r == update_process_stats(pid, head[i], thp, ov)
             IN  /\ head' = [head EXCEPT ![i] = r.proc]
                 /\ hints' = ExistingHints(pid, r.proc)
                 /\ call' = [pid |-> pid, found |-> TRUE,
                             ret |-> IF r.ret THEN "true" ELSE "false"]
        ELSE IF new.null
        THEN /\ head' = head
             /\ hints' = << <<pid, 1>> >>
             /\ call' = [pid |-> pid, found |-> FALSE, ret |-> "nomem"]
        ELSE LET r == update_process_stats(pid, new.proc, thp, ov)
             IN  IF ~r.ret
                 THEN /\ head' = head
                      /\ hints' = << >>
                      /\ call' = [pid |-> pid, found |-> FALSE, ret |-> "false"]
                 ELSE /\ head' = <<r.proc>> \o head
                      /\ hints' = NewHints(pid, r.proc)
                      /\ call' = [pid |-> pid, found |-> FALSE, ret |-> "true"]

(* new is what malloc returns when the pid is not found. *)
add_pid_to_list(pid, new, thp, ov) ==
    LET i == Find(pid, head)
    IN  IF i # 0
        THEN LET r == update_process_stats(pid, head[i], thp, ov)
             IN  /\ head' = [head EXCEPT ![i] = r.proc]
                 /\ hints' = ExistingHints(pid, r.proc)
                 /\ call' = [pid |-> pid, found |-> TRUE,
                             ret |-> IF r.ret THEN "true" ELSE "false"]
        ELSE IF new.null
        THEN /\ head' = head
             /\ hints' = << >>
             /\ call' = [pid |-> pid, found |-> FALSE, ret |-> "nomem"]
        ELSE LET r == update_process_stats(pid, new.proc, thp, ov)
             IN  IF ~r.ret
                 THEN /\ head' = head
                      /\ hints' = << >>
                      /\ call' = [pid |-> pid, found |-> FALSE, ret |-> "false"]
                 ELSE /\ head' = <<r.proc>> \o head
                      /\ hints' = NewHints(pid, r.proc)
                      /\ call' = [pid |-> pid, found |-> FALSE, ret |-> "true"]

-----------------------------------------------------------------------------
(* remove_expired_processes *)

(* The loop: kept is the list up to prev, rest the list from curr. *)
RECURSIVE PruneLoop(_, _)
PruneLoop(kept, rest) ==
    IF rest = << >> THEN kept
    ELSE IF Head(rest).timestamp < current_timestamp
    THEN PruneLoop(kept, Tail(rest))
    ELSE PruneLoop(Append(kept, Head(rest)), Tail(rest))

(* A loop that, having unlinked a record, steps over the one after it. *)
RECURSIVE PruneLoopSkipping(_, _)
PruneLoopSkipping(kept, rest) ==
    IF rest = << >> THEN kept
    ELSE IF Head(rest).timestamp < current_timestamp
    THEN IF Len(rest) = 1 THEN kept
         ELSE PruneLoopSkipping(Append(kept, rest[2]), Tail(Tail(rest)))
    ELSE PruneLoopSkipping(Append(kept, Head(rest)), Tail(rest))

remove_expired_skipping(list) == PruneLoopSkipping(<< >>, list)

remove_expired_processes(list) == PruneLoop(<< >>, list)

-----------------------------------------------------------------------------
(* get_process_weight and update_candidate_process *)

get_process_weight(proc) ==
    LET rss == CDiv(proc.anon_size - proc.anon_thp, 1024)
    IN  IF rss <= 0 THEN <<-1, 1>>
        ELSE <<proc.overhead[1] * 1024, proc.overhead[2] * rss>>

(* The scan: best is the position of the best record so far, 0 for NULL. *)
RECURSIVE ScanFrom(_, _, _, _)
ScanFrom(list, i, best, best_weight) ==
    IF i > Len(list) THEN best
    ELSE IF list[i].skip \/ RatLess(list[i].overhead, <<IS_CONSIDERABLE, 1>>)
    THEN ScanFrom(list, i + 1, best, best_weight)
    ELSE LET curr_weight == get_process_weight(list[i])
         IN  IF RatGreater(curr_weight, best_weight)
             THEN ScanFrom(list, i + 1, i, curr_weight)
             ELSE ScanFrom(list, i + 1, best, best_weight)

(* A scan in which a record of equal weight replaces the best so far. *)
RECURSIVE ScanFromLastTie(_, _, _, _)
ScanFromLastTie(list, i, best, best_weight) ==
    IF i > Len(list) THEN best
    ELSE IF list[i].skip \/ RatLess(list[i].overhead, <<IS_CONSIDERABLE, 1>>)
    THEN ScanFromLastTie(list, i + 1, best, best_weight)
    ELSE LET curr_weight == get_process_weight(list[i])
         IN  IF ~RatLess(curr_weight, best_weight)
             THEN ScanFromLastTie(list, i + 1, i, curr_weight)
             ELSE ScanFromLastTie(list, i + 1, best, best_weight)

update_candidate_process_last_tie(list) == ScanFromLastTie(list, 1, 0, <<0, 1>>)

(* A scan that starts from a best weight below every weight. *)
update_candidate_process_lowest_start(list) == ScanFrom(list, 1, 0, <<-2, 1>>)

update_candidate_process(list) == ScanFrom(list, 1, 0, <<0, 1>>)

-----------------------------------------------------------------------------
(* profile_forever *)

NoCall == [pid |-> 0, found |-> FALSE, ret |-> "none"]

Init ==
    /\ current_timestamp = 0
    /\ head = << >>
    /\ pc = "popen"
    /\ nread = 0
    /\ observed = {}
    /\ before = {}
    /\ call = NoCall
    /\ hints = << >>
    /\ live = 0
    /\ starved = {}

(* popen returns a stream. *)
Popen ==
    /\ pc = "popen"
    /\ pc' = "fgets"
    /\ nread' = 0
    /\ observed' = {}
    /\ before' = PidsOf(head)
    /\ call' = NoCall
    /\ hints' = << >>
    /\ UNCHANGED <<current_timestamp, head, live, starved>>

(* popen returns NULL: exit(EXIT_FAILURE). *)
PopenFail ==
    /\ pc = "popen"
    /\ pc' = "exited"
    /\ call' = NoCall
    /\ hints' = << >>
    /\ UNCHANGED <<current_timestamp, head, nread, observed, before, live, starved>>

(* fgets returns a line naming sshd, bash or global_profile: continue. *)
IgnoreLine ==
    /\ pc = "fgets"
    /\ nread < MaxLines
    /\ nread' = nread + 1
    /\ call' = NoCall
    /\ hints' = << >>
    /\ UNCHANGED <<current_timestamp, head, pc, observed, before, live, starved>>

(* fgets returns a line; its pid goes to add_pid_to_list.  mallocs is what *)
(* malloc may return in this call.                                         *)
ReadStep(mallocs) ==
    /\ pc = "fgets"
    /\ nread < MaxLines
    /\ \E pid \in Pids, thp \in ThpResults, ov \in OverheadResults :
         \E new \in IF Find(pid, head) # 0 THEN {CHOOSE m \in MallocResults : m.null}
                                             ELSE mallocs :
            /\ add_pid_to_list(pid, new, thp, ov)
            /\ observed' = observed \cup {pid}
    /\ nread' = nread + 1
    /\ UNCHANGED <<current_timestamp, pc, before>>

(* A step that gives up when malloc returns NULL. *)
ReadLineExitOnNomem ==
    /\ pc = "fgets"
    /\ nread < MaxLines
    /\ \E pid \in Pids, thp \in ThpResults, ov \in OverheadResults :
         \E new \in IF Find(pid, head) # 0 THEN {CHOOSE m \in MallocResults : m.null}
                                             ELSE MallocResults :
            /\ add_pid_to_list(pid, new, thp, ov)
            /\ observed' = observed \cup {pid}
    /\ nread' = nread + 1
    /\ pc' = IF call'.ret = "nomem" THEN "exited" ELSE pc
    /\ UNCHANGED <<current_timestamp, before, live, starved>>

ReadLine ==
    /\ ReadStep(MallocResults)
    /\ UNCHANGED <<live, starved>>

(* The same step with the heap followed: malloc returns a record only      *)
(* while the heap has room, and a record it returned is live.              *)
ReadLineHeap ==
    /\ ReadStep(IF live < MaxLive THEN MallocResults
                                  ELSE {m \in MallocResults : m.null})
    /\ live' = IF ~call'.found /\ call'.ret \in {"true", "false"}
               THEN live + 1 ELSE live
    /\ UNCHANGED starved

(* The same step with the PIDs malloc failed for followed. *)
ReadLineRetry ==
    /\ ReadStep(MallocResults)
    /\ starved' = IF call'.ret = "nomem" THEN starved \cup {call'.pid}
                  ELSE IF call'.ret = "true" THEN starved \ {call'.pid}
                  ELSE starved
    /\ UNCHANGED live

(* fgets returns NULL; remove_expired_processes. *)
PruneStep ==
    /\ pc = "fgets"
    /\ pc' = "log"
    /\ head' = remove_expired_processes(head)
    /\ call' = NoCall
    /\ hints' = << >>
    /\ UNCHANGED <<current_timestamp, nread, observed, before>>

Prune ==
    /\ PruneStep
    /\ UNCHANGED <<live, starved>>

(* The same step with the heap followed: free(del) for each record unlinked. *)
PruneHeap ==
    /\ PruneStep
    /\ live' = live - (Len(head) - Len(head'))
    /\ UNCHANGED starved

(* A loop that goes back to popen right after the log. *)
LogThenPopen ==
    /\ pc = "log"
    /\ pc' = "popen"
    /\ UNCHANGED <<current_timestamp, head, nread, observed, before, call, hints,
                   live, starved>>

(* log_process_info; pclose. *)
Log ==
    /\ pc = "log"
    /\ pc' = "sleep"
    /\ UNCHANGED <<current_timestamp, head, nread, observed, before, call, hints,
                   live, starved>>

(* A loop end that leaves the clock as it is. *)
SleepTickNoIncrement ==
    /\ pc = "sleep"
    /\ current_timestamp < MaxTick
    /\ pc' = "popen"
    /\ UNCHANGED <<current_timestamp, head, nread, observed, before, call, hints,
                   live, starved>>

(* sleep(interval); current_timestamp += 1. *)
SleepTick ==
    /\ pc = "sleep"
    /\ current_timestamp < MaxTick
    /\ current_timestamp' = current_timestamp + 1
    /\ pc' = "popen"
    /\ UNCHANGED <<head, nread, observed, before, call, hints, live, starved>>

Next ==
    \/ Popen
    \/ PopenFail
    \/ IgnoreLine
    \/ ReadLine
    \/ Prune
    \/ Log
    \/ SleepTick

Spec == Init /\ [][Next]_vars

(* The stream popen returned ends, and log_process_info, pclose and sleep *)
(* return: once fgets can return NULL it does, and the loop body goes on.  *)
SpecFair ==
    /\ Spec
    /\ WF_vars(Prune)
    /\ WF_vars(Log)
    /\ WF_vars(SleepTick)

NextHeap ==
    \/ Popen
    \/ PopenFail
    \/ IgnoreLine
    \/ ReadLineHeap
    \/ PruneHeap
    \/ Log
    \/ SleepTick

SpecHeap == Init /\ [][NextHeap]_vars

NextRetry ==
    \/ Popen
    \/ PopenFail
    \/ IgnoreLine
    \/ ReadLineRetry
    \/ Prune
    \/ Log
    \/ SleepTick

SpecRetry == Init /\ [][NextRetry]_vars

-----------------------------------------------------------------------------
(* Properties *)

(* C1. Uniqueness: the list never holds two records with the same pid,     *)
(* whatever PIDs the ticks observe, a PID twice in one tick included.      *)
C1_Uniqueness ==
    \A i, j \in 1..Len(head) : i # j => head[i].pid # head[j].pid

(* A PID observed a second time in the tick that inserted it. *)
C1_Witness ==
    /\ pc = "fgets"
    /\ current_timestamp = 0
    /\ nread = 2
    /\ call.ret # "none"
    /\ call.found
    /\ Len(head) = 1

(* C2. Staleness: once a tick's prune has run, no PID that was in the list *)
(* when the tick started and was not observed in the tick is in the list.  *)
C2_Staleness ==
    pc \in {"log", "sleep"} =>
        \A p \in before \ observed : p \notin PidsOf(head)

(* Two records, the head and the one after it, went stale and are gone. *)
C2_Witness ==
    /\ pc = "log"
    /\ Cardinality(before \ observed) = 2
    /\ head = << >>

(* C3. The prune keeps every record whose PID was observed in this tick,   *)
(* also one whose refresh failed and left skip = TRUE.                     *)
C3_PruneKeepsObserved ==
    [][(pc = "fgets" /\ pc' = "log") =>
        \A i \in 1..Len(head) :
            head[i].pid \in observed =>
                \E j \in 1..Len(head') : head'[j] = head[i]]_vars

(* After a prune: a record observed in this tick whose refresh failed. *)
C3_Witness ==
    /\ pc = "log"
    /\ current_timestamp > 0
    /\ \E i \in 1..Len(head) :
        /\ head[i].pid \in observed
        /\ head[i].pid \in before
        /\ head[i].skip

(* C4. The clock starts at 0; the step that ends a tick adds one to it and *)
(* no other step changes it.                                               *)
C4_MonotonicClock ==
    /\ current_timestamp = 0
    /\ [][IF pc = "sleep"
          THEN current_timestamp' = current_timestamp + 1
          ELSE current_timestamp' = current_timestamp]_vars

(* The clock has advanced once per completed tick, up to the bound. *)
C4_Witness ==
    /\ pc = "popen"
    /\ current_timestamp = MaxTick

(* max(1, floor(x)) and max(1, truncate(x)) of an overhead, as the         *)
(* specification words the value of a hint.                                *)
Abs(n) == IF n < 0 THEN -n ELSE n

Truncated(x) ==
    CHOOSE k \in -Abs(x[1])..Abs(x[1]) :
        /\ k * x[1] >= 0
        /\ Abs(k) * x[2] <= Abs(x[1])
        /\ Abs(x[1]) < (Abs(k) + 1) * x[2]

MaxOneTruncated(x) == IF Truncated(x) >= 1 THEN Truncated(x) ELSE 1

MaxOneFloor(x) == IF x[1] \div x[2] >= 1 THEN x[1] \div x[2] ELSE 1

(* C5. Eligibility gate: no record of the list has skip = FALSE together   *)
(* with anon_size <= ELIGIBILITY_THRESHOLD, and the candidate selector     *)
(* returns no record with anon_size <= ELIGIBILITY_THRESHOLD.              *)
C5_EligibilityGate ==
    /\ \A i \in 1..Len(head) :
        ~head[i].skip => head[i].anon_size > ELIGIBILITY_THRESHOLD
    /\ LET best == update_candidate_process(head)
       IN  best # 0 => head[best].anon_size > ELIGIBILITY_THRESHOLD

(* A listed record with a considerable overhead whose size fell to the     *)
(* threshold: it is marked skip.                                           *)
C5_Witness ==
    \E i \in 1..Len(head) :
        /\ head[i].anon_size <= ELIGIBILITY_THRESHOLD
        /\ ~RatLess(head[i].overhead, <<IS_CONSIDERABLE, 1>>)
        /\ head[i].skip

(* C6. When a PID that is not in the list is observed and its first update *)
(* returns false, the list is unchanged and no hint is emitted.            *)
C6_FailedFirstObservation ==
    [][(call'.ret = "false" /\ call'.pid \notin PidsOf(head)) =>
        (head' = head /\ hints' = << >>)]_vars

(* A first observation that failed, beside a list that holds a record. *)
C6_Witness ==
    /\ call.ret = "false"
    /\ ~call.found
    /\ call.pid \notin PidsOf(head)
    /\ Len(head) = 1

(* C7. When a PID that is not in the list is observed and passes           *)
(* eligibility, it is inserted and two hints are emitted for it: 1000,     *)
(* then max(1, truncate(overhead)).  A hint of 1000 is emitted only by the *)
(* step that inserts its PID.                                              *)
C7_FirstObservationHints ==
    [][/\ (call'.ret = "true" /\ call'.pid \notin PidsOf(head)) =>
            /\ Len(head') = Len(head) + 1
            /\ Tail(head') = head
            /\ head'[1].pid = call'.pid
            /\ hints' = << <<call'.pid, 1000>>,
                           <<call'.pid, MaxOneTruncated(head'[1].overhead)>> >>
       /\ \A k \in 1..Len(hints') :
            hints'[k][2] = 1000 =>
                /\ k = 1
                /\ hints'[k][1] \notin PidsOf(head)
                /\ hints'[k][1] \in PidsOf(head')]_vars

(* An insertion with overhead 10 in a tick after the first. *)
C7_Witness ==
    /\ call.ret = "true"
    /\ ~call.found
    /\ current_timestamp > 0
    /\ hints = << <<call.pid, 1000>>, <<call.pid, 10>> >>
    /\ head[1].pid = call.pid

(* C8. For every observation of a PID that is in the list, the update runs *)
(* on its record and exactly one hint, max(1, floor(overhead)) of the      *)
(* updated record, is emitted, whether the update succeeded or not.        *)
C8_ExistingObservation ==
    [][(call'.ret # "none" /\ call'.pid \in PidsOf(head)) =>
        LET i == CHOOSE k \in 1..Len(head) : head[k].pid = call'.pid
        IN  /\ Len(head') = Len(head)
            /\ \A k \in 1..Len(head) : k # i => head'[k] = head[k]
            /\ head'[i].pid = call'.pid
            /\ head'[i].timestamp = current_timestamp
            /\ head'[i].skip = (call'.ret # "true")
            /\ hints' = << <<call'.pid, MaxOneFloor(head'[i].overhead)>> >>]_vars

(* A listed PID whose update failed: the hint carries its last overhead. *)
C8_Witness ==
    /\ call.ret = "false"
    /\ call.found
    /\ hints = << <<call.pid, 10>> >>
    /\ \E i \in 1..Len(head) : head[i].pid = call.pid /\ head[i].skip

(* C9. Every hint carries an integer value >= 1. *)
C9_HintAtLeastOne ==
    \A k \in 1..Len(hints) : hints[k][2] \in Int /\ hints[k][2] >= 1

(* A hint for a record whose overhead is negative. *)
C9_Witness ==
    /\ Len(hints) = 1
    /\ hints[1][2] = 1
    /\ \E i \in 1..Len(head) :
        head[i].pid = hints[1][1] /\ head[i].overhead[1] < 0

(* C10. Weight ordering: the selector returns the candidate (skip = FALSE, *)
(* overhead >= IS_CONSIDERABLE) whose weight overhead / (anon_size -       *)
(* anon_thp) is strictly the greatest; with no candidate, or none with a   *)
(* positive denominator, it returns none.                                  *)
Candidates(list) ==
    { i \in 1..Len(list) :
        ~list[i].skip /\ ~RatLess(list[i].overhead, <<IS_CONSIDERABLE, 1>>) }

Scorable(list) ==
    { i \in Candidates(list) : list[i].anon_size - list[i].anon_thp > 0 }

Weight(proc) ==
    <<proc.overhead[1], proc.overhead[2] * (proc.anon_size - proc.anon_thp)>>

C10_WeightOrdering ==
    LET best == update_candidate_process(head)
    IN  /\ Scorable(head) = {} => best = 0
        /\ \A m \in Scorable(head) :
            (\A j \in Scorable(head) \ {m} :
                RatGreater(Weight(head[m]), Weight(head[j]))) => best = m

(* C11. Malformed metrics: a record with anon_thp > anon_size or a         *)
(* negative size is never returned by the selector, the record returned    *)
(* has a positive weight, and the selector returns what it returns when    *)
(* the malformed records are marked skip, as records without metrics are.  *)
Malformed(proc) ==
    proc.anon_thp > proc.anon_size \/ proc.anon_size < 0

MarkMalformed(list) ==
    [i \in 1..Len(list) |->
        IF Malformed(list[i]) THEN [list[i] EXCEPT !.skip = TRUE] ELSE list[i]]

C12_HintsAfterPrune ==
    Len(hints) > 0 => pc \in {"log", "sleep"}

(* C12, amended: a tick runs popen, the merge (add_pid_to_list per line,   *)
(* which makes that line's syscalls), the prune and the log, in that       *)
(* order, and only then is the clock incremented; the list changes only in *)
(* the merge and the prune, and hints are emitted only by the merge.       *)
C12_PhaseOrderAmended ==
    [][/\ pc = "popen" => pc' \in {"fgets", "exited"}
       /\ pc = "fgets" => pc' \in {"fgets", "log"}
       /\ pc = "log" => pc' = "sleep"
       /\ pc = "sleep" => pc' = "popen"
       /\ pc = "exited" => pc' = "exited"
       /\ current_timestamp' # current_timestamp => (pc = "sleep" /\ pc' = "popen")
       /\ head' # head => pc = "fgets"
       /\ Len(hints') > 0 => (pc = "fgets" /\ pc' = "fgets" /\ call'.ret # "none")]_vars

(* A later tick that observed a PID, emitted its hints and ran to the end. *)
C12_Witness ==
    /\ pc = "sleep"
    /\ current_timestamp > 0
    /\ observed # {}
    /\ Len(head) > 0

(* C13. Registry exhaustion (SpecRetry): when malloc returns NULL for an   *)
(* observed PID the list is unchanged, no hint is emitted and the tick     *)
(* goes on reading; when a PID malloc failed for is observed again, malloc *)
(* returns a record and the update succeeds, the PID is inserted.          *)
C13_RegistryExhaustion ==
    [][/\ call'.ret = "nomem" =>
            /\ head' = head
            /\ hints' = << >>
            /\ pc' = "fgets"
            /\ current_timestamp' = current_timestamp
            /\ call'.pid \in starved'
       /\ (call'.pid \in starved /\ call'.ret = "true") =>
            /\ call'.pid \notin PidsOf(head)
            /\ Len(head') = Len(head) + 1
            /\ head'[1].pid = call'.pid
            /\ Tail(head') = head
            /\ Len(hints') = 2]_vars

(* A later tick starts with a record in the list and a PID, not listed,    *)
(* that malloc failed for in an earlier tick.                              *)
C13_Witness ==
    /\ pc = "fgets"
    /\ current_timestamp > 0
    /\ nread = 0
    /\ starved # {}
    /\ Len(head) > 0

(* C14, as claimed: no failure, that of obtaining the process list         *)
(* included, ends the tick loop.                                           *)
C14_LoopNeverExits ==
    pc # "exited"

(* C14, amended (SpecFair): the loop is left only when popen fails; every  *)
(* tick whose popen succeeded runs to its end and increments the clock,    *)
(* whatever the metrics and malloc return.                                 *)
C14_TickCompletes ==
    /\ [][pc' = "exited" => pc \in {"popen", "exited"}]_vars
    /\ \A n \in 0..(MaxTick - 1) :
        (pc = "fgets" /\ current_timestamp = n)
            ~> (pc = "popen" /\ current_timestamp = n + 1)

(* A tick in which every observation failed has completed and the clock    *)
(* has advanced.                                                           *)
C14_Witness ==
    /\ pc = "popen"
    /\ current_timestamp > 0
    /\ observed = Pids
    /\ before = {}
    /\ head = << >>

(* C15, as claimed: an update that fails leaves the timestamp of the       *)
(* listed record it ran on as it was.                                      *)
C15_FailedUpdateKeepsStamp ==
    [][(call'.found /\ call'.ret = "false")
        => \A i \in 1..Len(head') : head'[i].pid = call'.pid
            => \E j \in 1..Len(head) : /\ head[j].pid = call'.pid
                                       /\ head[j].timestamp = head'[i].timestamp]_vars

(* C15, amended: every update of a record, eligible or not, sets its       *)
(* timestamp to the clock; nothing else changes a timestamp, and no        *)
(* timestamp is greater than the clock.                                    *)
C15_StampOnEveryUpdate ==
    [][/\ \A i \in 1..Len(head') : head'[i].timestamp <= current_timestamp'
       /\ \A i \in 1..Len(head') :
            IF call'.ret \in {"true", "false"} /\ head'[i].pid = call'.pid
            THEN head'[i].timestamp = current_timestamp
            ELSE \E j \in 1..Len(head) : /\ head[j].pid = head'[i].pid
                                         /\ head[j].timestamp = head'[i].timestamp]_vars

(* A record listed in an earlier tick has just had a failed update and     *)
(* carries the present clock value.                                        *)
C15_Witness ==
    /\ current_timestamp > 0
    /\ call.found
    /\ call.ret = "false"
    /\ call.pid \in before
    /\ call.pid \notin (observed \ {call.pid})
    /\ \E i \in 1..Len(head) : /\ head[i].pid = call.pid
                               /\ head[i].timestamp = current_timestamp
                               /\ head[i].skip

(* C16. Every candidate with anon_size - anon_thp > 0 gets a positive      *)
(* weight, and a candidate that is alone in the list with such a           *)
(* denominator is the record the selector returns.                         *)
C16_PositiveDenominatorScored ==
    /\ \A i \in Scorable(head) :
        RatGreater(get_process_weight(head[i]), <<0, 1>>)
    /\ (Len(head) = 1 /\ Scorable(head) = {1})
        => update_candidate_process(head) = 1

(* C17. Tie-break: the record the selector returns is a candidate of       *)
(* maximal weight, and every candidate before it in the list has a         *)
(* strictly smaller weight, so among candidates of equal maximal weight    *)
(* the first one in the scan is returned.                                  *)
Scored(list) ==
    { i \in Candidates(list) :
        RatGreater(get_process_weight(list[i]), <<0, 1>>) }

C17_TieBreakFirst ==
    LET best == update_candidate_process(head)
    IN  /\ best = 0 <=> Scored(head) = {}
        /\ best # 0 =>
            /\ best \in Scored(head)
            /\ \A j \in Scored(head) :
                ~RatGreater(get_process_weight(head[j]),
                            get_process_weight(head[best]))
            /\ \A j \in Scored(head) : j < best =>
                RatLess(get_process_weight(head[j]),
                        get_process_weight(head[best]))

(* Two candidates of the same positive weight: the first is returned.      *)
C17_Witness ==
    /\ Len(head) = 2
    /\ Scored(head) = {1, 2}
    /\ get_process_weight(head[1]) = get_process_weight(head[2])
    /\ update_candidate_process(head) = 1

(* C18. When the update of a listed record fails (huge-page statistics     *)
(* unavailable, or anon_size <= ELIGIBILITY_THRESHOLD), the record keeps   *)
(* the overhead it had, skip becomes TRUE, and the one hint emitted is     *)
(* max(1, truncate(that overhead)).                                        *)
C18_FailedUpdateKeepsOverhead ==
    [][(call'.found /\ call'.ret = "false") =>
        \E i \in 1..Len(head) :
            /\ head[i].pid = call'.pid
            /\ Len(head') = Len(head)
            /\ head'[i].pid = call'.pid
            /\ head'[i].overhead = head[i].overhead
            /\ head'[i].skip
            /\ hints' = << <<call'.pid, MaxOneTruncated(head[i].overhead)>> >>]_vars

(* A listed record with overhead 10 whose size fell to the threshold: it   *)
(* is marked skip, keeps the overhead, and the hint is 10.                 *)
C18_Witness ==
    /\ call.found
    /\ call.ret = "false"
    /\ \E i \in 1..Len(head) :
        /\ head[i].pid = call.pid
        /\ head[i].anon_size <= ELIGIBILITY_THRESHOLD
        /\ head[i].overhead = <<10, 1>>
        /\ head[i].skip
        /\ hints = << <<call.pid, 10>> >>

(* C19. From the prune of a tick until the clock is incremented every      *)
(* record of the list has timestamp = current_timestamp; from the          *)
(* increment until the next prune every record has timestamp equal to      *)
(* current_timestamp or current_timestamp - 1.                             *)
C19_TimestampWindow ==
    /\ pc \in {"log", "sleep"} =>
        \A i \in 1..Len(head) : head[i].timestamp = current_timestamp
    /\ pc \in {"popen", "fgets", "exited"} =>
        \A i \in 1..Len(head) :
            head[i].timestamp \in {current_timestamp, current_timestamp - 1}

(* Before the prune of a later tick the list holds a record stamped in     *)
(* this tick and one stamped in the tick before.                           *)
C19_Witness ==
    /\ pc = "fgets"
    /\ current_timestamp > 0
    /\ Len(head) = 2
    /\ head[1].timestamp = current_timestamp - 1
    /\ head[2].timestamp = current_timestamp

(* C20 (SpecHeap). No record is leaked: the number of records allocated    *)
(* and not freed equals the length of the list, after every                *)
(* add_pid_to_list call and after every prune.                             *)
C20_NoLeak ==
    live = Len(head)

====
